---- MODULE Spec2Model ----
(***************************************************************************)
(* The priors of radvel (src/radvel/prior.py): Gaussian, HardBounds,       *)
(* EccentricityPrior, PositiveKPrior and SecondaryEclipsePrior, each with  *)
(* its constructor (__init__), evaluation (__call__), description          *)
(* (__repr__) and rendering (__str__).                                      *)
(*                                                                         *)
(* Numbers.  A Python float is modelled by an exact real: a rational n/d   *)
(* (t = "rat"), the square root of a rational (t = "sqrt", the value of    *)
(* np.sqrt when it is irrational) or e to a rational power (t = "exp", the *)
(* value of np.exp).  Rounding, overflow and nan are outside the model.    *)
(* Parameter values and prior arguments are Python floats, so a division   *)
(* by zero raises ZeroDivisionError.                                       *)
(*                                                                         *)
(* Strings.  A parameter name such as "secosw2" is the pair <<key, n>>     *)
(* that '{}{}'.format(key, n) is built from (n = 0: a name that carries no *)
(* planet index).  A formatted message is the tuple of its pieces.         *)
(***************************************************************************)
EXTENDS Integers, Sequences, FiniteSets, TLC

\* TLC keeps the fields of a record in the order in which their names first appear
\* in the text; the records below list their fields in the order named here, so
\* that every record is built in its normal form.
FieldNames ==
    [type |-> 0, t |-> 0, n |-> 0, d |-> 0, status |-> 0, value |-> 0, err |-> 0,
     reads |-> 0, basis |-> 0, vals |-> 0, kind |-> 0, param |-> 0, mu |-> 0,
     sigma |-> 0, minval |-> 0, maxval |-> 0, planet_list |-> 0,
     upperlims |-> 0, num_planets |-> 0, planet_num |-> 0, ts |-> 0,
     ts_err |-> 0, items |-> 0, x |-> 0, op |-> 0, args |-> 0,
     res |-> 0]

VARIABLES prior, params, out

vars == <<prior, params, out>>

(***************************************************************************)
(* Bounds of the model.                                                    *)
(***************************************************************************)
\* planets 1..MaxPlanets can be held by a parameter state and named by a prior
MaxPlanets == 2

(***************************************************************************)
(* Float arithmetic.                                                       *)
(***************************************************************************)
Abs(x) == IF x < 0 THEN -x ELSE x

RECURSIVE GCD(_, _)
GCD(a, b) == IF b = 0 THEN a ELSE GCD(b, a % b)

\* the float n/d, in lowest terms with a positive denominator
Rat(n, d) ==
    LET g == GCD(Abs(n), Abs(d))
        s == IF d < 0 THEN -1 ELSE 1
    IN  [t |-> "rat", n |-> (s * n) \div g, d |-> (s * d) \div g]

Zero == Rat(0, 1)

Add(a, b) == Rat(a.n * b.d + b.n * a.d, a.d * b.d)

Sub(a, b) == Rat(a.n * b.d - b.n * a.d, a.d * b.d)

Mul(a, b) == Rat(a.n * b.n, a.d * b.d)

\* a / b for b # 0
Div(a, b) == Rat(a.n * b.d, a.d * b.n)

\* a**2
Square(a) == Mul(a, a)

IsSquare(k) == \E r \in 0..k : r * r = k

Root(k) == CHOOSE r \in 0..k : r * r = k

\* np.sqrt(a) for a rational a >= 0
Sqrt(a) ==
    IF IsSquare(a.n) /\ IsSquare(a.d)
    THEN Rat(Root(a.n), Root(a.d))
    ELSE [t |-> "sqrt", n |-> a.n, d |-> a.d]

\* np.exp(a) for a rational a
Exp(a) == IF a.n = 0 THEN Rat(1, 1) ELSE [t |-> "exp", n |-> a.n, d |-> a.d]

\* a < b on floats.  sqrt(q) < b iff b > 0 and q < b^2; a < sqrt(q) iff a < 0 or
\* a^2 < q; e^q is positive, and is compared here only with numbers <= 0.
Less(a, b) ==
    CASE a.t = "rat" /\ b.t = "rat" -> a.n * b.d < b.n * a.d
      [] a.t = "sqrt" /\ b.t = "rat" ->
            b.n > 0 /\ a.n * b.d * b.d < b.n * b.n * a.d
      [] a.t = "rat" /\ b.t = "sqrt" ->
            a.n < 0 \/ a.n * a.n * b.d < b.n * a.d * a.d
      [] a.t = "exp" /\ b.t = "rat" /\ b.n <= 0 -> FALSE
      [] a.t = "rat" /\ b.t = "exp" /\ a.n <= 0 -> TRUE

\* -np.inf
NegInf == [t |-> "-inf"]

(***************************************************************************)
(* Outcomes of a call: a returned value or a raised exception, with the    *)
(* parameter names the call looked up, in order.                           *)
(***************************************************************************)
Return(v, reads) == [status |-> "return", value |-> v, reads |-> reads]

Raise(e, reads) == [status |-> "raise", err |-> e, reads |-> reads]

\* '{}{}'.format(key, num_planet)
Format(key, num_planet) == <<key, num_planet>>

\* name in params
Has(ps, name) == name \in DOMAIN ps.vals

(***************************************************************************)
(* Parameter states: params.basis.name and the mapping params[name].value. *)
(***************************************************************************)
\* the basis names a parameter state can carry
Bases ==
    {"per tp e w k", "per tc e w k", "per tc secosw sesinw k",
     "per tc secosw sesinw logk", "per tc ecosw esinw k", "per tc se w k"}

\* name.split(): the tokens of a basis name
Split(name) ==
    CASE name = "per tp e w k" -> <<"per", "tp", "e", "w", "k">>
      [] name = "per tc e w k" -> <<"per", "tc", "e", "w", "k">>
      [] name = "per tc secosw sesinw k" -> <<"per", "tc", "secosw", "sesinw", "k">>
      [] name = "per tc secosw sesinw logk" ->
            <<"per", "tc", "secosw", "sesinw", "logk">>
      [] name = "per tc ecosw esinw k" -> <<"per", "tc", "ecosw", "esinw", "k">>
      [] name = "per tc se w k" -> <<"per", "tc", "se", "w", "k">>

\* x in list
In(x, list) == \E j \in 1..Len(list) : list[j] = x

Planets == 1..MaxPlanets

\* the value a parameter has while the sampler does not vary it
Default(tok) ==
    CASE tok \in {"per", "k"} -> Rat(1, 1)
      [] OTHER -> Zero

\* the parameters of one planet in a basis, all at their defaults
DefaultPlanet(basis) ==
    LET toks == Split(basis)
    IN  [tok \in {toks[j] : j \in 1..Len(toks)} |-> Default(tok)]

\* values of e, and of the pairs (secosw, sesinw) and (ecosw, esinw)
EVals == {Rat(-1, 2), Zero, Rat(1, 2), Rat(1, 1)}

PairVals ==
    {<<Zero, Zero>>, <<Rat(1, 2), Zero>>, <<Rat(-1, 2), Rat(1, 2)>>,
     <<Rat(1, 1), Zero>>, <<Rat(1, 1), Rat(1, 2)>>}

\* values of k and of logk
KVals == {Rat(-1, 1), Zero, Rat(1, 2)}

LogKVals == {Rat(-1, 1), Zero}

\* values of per and tp (synth basis)
PerVals == {Rat(1, 1), Rat(2, 1)}

TpVals == {Zero, Rat(1, 2)}

\* f with f[x] = v, x added to the domain when it is not there
With(f, x, v) == [y \in DOMAIN f \cup {x} |-> IF y = x THEN v ELSE f[y]]

\* the planets the sampler can propose in a basis when it varies the eccentricity
\* parameters ("ecc"), the amplitude ("k") or the orbit's timing ("orbit")
PlanetMenu(basis, focus) ==
    LET dflt == DefaultPlanet(basis)
        toks == Split(basis)
    IN  CASE focus = "ecc" /\ In("e", toks) -> {With(dflt, "e", v) : v \in EVals}
          [] focus = "ecc" /\ In("secosw", toks) ->
                {With(With(dflt, "secosw", p[1]), "sesinw", p[2]) : p \in PairVals}
          [] focus = "ecc" /\ In("ecosw", toks) ->
                {With(With(dflt, "ecosw", p[1]), "esinw", p[2]) : p \in PairVals}
          [] focus = "k" /\ In("k", toks) ->
                {With(dflt, "k", v) : v \in KVals}
                    \cup {With(With(dflt, "k", Rat(-1, 1)), "logk", Zero)}
          [] focus = "k" /\ In("logk", toks) ->
                {With(dflt, "logk", v) : v \in LogKVals}
          [] focus = "orbit" /\ In("tp", toks) ->
                {With(With(dflt, "per", p), "tp", t) : p \in PerVals, t \in TpVals}
          [] OTHER -> {dflt}

\* the names of planet n
PlanetNames(ps, n) == {name \in DOMAIN ps.vals : name[2] = n}

\* the state with planet n's parameters replaced by those of `planet`
SetPlanet(ps, n, planet) ==
    LET new == {Format(tok, n) : tok \in DOMAIN planet}
        kept == DOMAIN ps.vals \ PlanetNames(ps, n)
    IN  [ps EXCEPT !.vals =
            [name \in kept \cup new |->
                IF name \in new THEN planet[name[1]] ELSE ps.vals[name]]]

\* the state without planet n's parameters
DropPlanet(ps, n) ==
    [ps EXCEPT !.vals = [name \in DOMAIN ps.vals \ PlanetNames(ps, n) |-> ps.vals[name]]]

\* a state of the basis that holds no planet yet
EmptyParams(basis) == [basis |-> basis, vals |-> [name \in {} |-> Zero]]

(***************************************************************************)
(* Gaussian                                                                *)
(***************************************************************************)
GaussianInit(param, mu, sigma) ==
    Return([kind |-> "Gaussian", param |-> param, mu |-> mu, sigma |-> sigma], <<>>)

\* GaussianCall with the sign of the penalty lost
GaussianCallPositive(self, ps) ==
    LET reads == <<self.param>>
    IN  IF ~Has(ps, self.param) THEN Raise("KeyError", reads)
        ELSE LET x == ps.vals[self.param]
             IN  IF self.sigma = Zero THEN Raise("ZeroDivisionError", reads)
                 ELSE Return(Mul(Rat(1, 2), Square(Div(Sub(x, self.mu), self.sigma))),
                             reads)

GaussianCall(self, ps) ==
    LET reads == <<self.param>>
    IN  IF ~Has(ps, self.param) THEN Raise("KeyError", reads)
        ELSE LET x == ps.vals[self.param]
             IN  IF self.sigma = Zero THEN Raise("ZeroDivisionError", reads)
                 ELSE Return(Mul(Rat(-1, 2), Square(Div(Sub(x, self.mu), self.sigma))),
                             reads)

(***************************************************************************)
(* HardBounds                                                              *)
(***************************************************************************)
HardBoundsInit(param, minval, maxval) ==
    Return([kind |-> "HardBounds", param |-> param, minval |-> minval,
            maxval |-> maxval], <<>>)

\* HardBoundsCall with exclusive bounds (<= and >=)
HardBoundsCallExclusive(self, ps) ==
    LET reads == <<self.param>>
    IN  IF ~Has(ps, self.param) THEN Raise("KeyError", reads)
        ELSE LET x == ps.vals[self.param]
             IN  IF ~Less(self.minval, x) \/ ~Less(x, self.maxval)
                 THEN Return(NegInf, reads)
                 ELSE Return(Zero, reads)

HardBoundsCall(self, ps) ==
    LET reads == <<self.param>>
    IN  IF ~Has(ps, self.param) THEN Raise("KeyError", reads)
        ELSE LET x == ps.vals[self.param]
             IN  IF Less(x, self.minval) \/ Less(self.maxval, x)
                 THEN Return(NegInf, reads)
                 ELSE Return(Zero, reads)

(***************************************************************************)
(* EccentricityPrior                                                       *)
(***************************************************************************)
\* range(1, stop)
Range1(stop) == [j \in 1..(stop - 1) |-> j]

\* [x] * n
Repeat(x, n) == [j \in 1..n |-> x]

\* EccentricityPriorInit without the assert on the length of upperlims
EccentricityPriorInitUnchecked(num_planets, upperlims) ==
    LET planet_list ==
            IF num_planets.type = "int" THEN Range1(num_planets.n + 1)
            ELSE num_planets.items
        obj(lims) ==
            [kind |-> "EccentricityPrior", planet_list |-> planet_list,
             upperlims |-> lims]
    IN  IF upperlims.type = "float"
        THEN IF num_planets.type = "int"
             THEN Return(obj(Repeat(upperlims.x, Len(planet_list))), <<>>)
             ELSE Raise("TypeError", <<>>)
        ELSE Return(obj(upperlims.items), <<>>)

\* num_planets is [type |-> "int", n |-> n] or [type |-> "list", items |-> indices];
\* upperlims is [type |-> "float", x |-> x] or [type |-> "list", items |-> limits].
\* npl is len(planet_list) for an int and num_planets itself, a list, otherwise:
\* [upperlims] * npl is then a TypeError.
EccentricityPriorInit(num_planets, upperlims) ==
    LET planet_list ==
            IF num_planets.type = "int" THEN Range1(num_planets.n + 1)
            ELSE num_planets.items
        npl ==
            IF num_planets.type = "int"
            THEN [type |-> "int", n |-> Len(planet_list)]
            ELSE num_planets
        obj(lims) ==
            [kind |-> "EccentricityPrior", planet_list |-> planet_list,
             upperlims |-> lims]
    IN  IF upperlims.type = "float"
        THEN IF npl.type = "int"
             THEN Return(obj(Repeat(upperlims.x, npl.n)), <<>>)
             ELSE Raise("TypeError", <<>>)
        ELSE IF Len(upperlims.items) = Len(planet_list)
             THEN Return(obj(upperlims.items), <<>>)
             ELSE Raise("AssertionError", <<>>)

\* lines 119-120 for the planet at position i, its ecc computed
RECURSIVE EccentricityLoop(_, _, _, _)
\* EccentricityCheck without the early exit: the later planets are gone through
\* before -inf is returned
EccentricityCheckAll(self, ps, i, ecc, reads) ==
    IF i > Len(self.upperlims) THEN Raise("IndexError", reads)
    ELSE LET rest == EccentricityLoop(self, ps, i + 1, reads)
         IN  IF Less(self.upperlims[i], ecc) \/ Less(ecc, Zero)
             THEN IF rest.status = "raise" THEN rest ELSE Return(NegInf, rest.reads)
             ELSE rest

EccentricityCheck(self, ps, i, ecc, reads) ==
    IF i > Len(self.upperlims) THEN Raise("IndexError", reads)
    ELSE IF Less(self.upperlims[i], ecc) \/ Less(ecc, Zero)
         THEN Return(NegInf, reads)
         ELSE EccentricityLoop(self, ps, i + 1, reads)

\* EccentricityLoop with a square root taken in the secosw branch too
EccentricityLoopSqrt(self, ps, i, reads) ==
    IF i > Len(self.planet_list) THEN Return(Zero, reads)
    ELSE
    LET num_planet == self.planet_list[i]
        parnames == Split(ps.basis)
        first ==
            IF In("e", parnames) THEN "e"
            ELSE IF In("secosw", parnames) THEN "secosw"
            ELSE IF In("ecosw", parnames) THEN "ecosw"
            ELSE "none"
        second == IF first = "secosw" THEN "sesinw" ELSE "esinw"
        k1 == Format(first, num_planet)
        k2 == Format(second, num_planet)
    IN  IF first = "none" THEN Raise("UnboundLocalError", reads)
        ELSE IF ~Has(ps, k1) THEN Raise("KeyError", Append(reads, k1))
        ELSE IF first = "e"
             THEN EccentricityCheck(self, ps, i, ps.vals[k1], Append(reads, k1))
        ELSE IF ~Has(ps, k2) THEN Raise("KeyError", reads \o <<k1, k2>>)
        ELSE LET ecc == Sqrt(Add(Square(ps.vals[k1]), Square(ps.vals[k2])))
             IN  EccentricityCheck(self, ps, i, ecc, reads \o <<k1, k2>>)

\* the loop of lines 107-122 from position i of planet_list on
EccentricityLoop(self, ps, i, reads) ==
    IF i > Len(self.planet_list) THEN Return(Zero, reads)
    ELSE
    LET num_planet == self.planet_list[i]
        parnames == Split(ps.basis)
        first ==
            IF In("e", parnames) THEN "e"
            ELSE IF In("secosw", parnames) THEN "secosw"
            ELSE IF In("ecosw", parnames) THEN "ecosw"
            ELSE "none"
        second == IF first = "secosw" THEN "sesinw" ELSE "esinw"
        k1 == Format(first, num_planet)
        k2 == Format(second, num_planet)
    IN  IF first = "none" THEN Raise("UnboundLocalError", reads)
        ELSE IF ~Has(ps, k1) THEN Raise("KeyError", Append(reads, k1))
        ELSE IF first = "e"
             THEN EccentricityCheck(self, ps, i, ps.vals[k1], Append(reads, k1))
        ELSE IF ~Has(ps, k2) THEN Raise("KeyError", reads \o <<k1, k2>>)
        ELSE LET sum == Add(Square(ps.vals[k1]), Square(ps.vals[k2]))
                 ecc == IF first = "secosw" THEN sum ELSE Sqrt(sum)
             IN  EccentricityCheck(self, ps, i, ecc, reads \o <<k1, k2>>)

EccentricityPriorCall(self, ps) == EccentricityLoop(self, ps, 1, <<>>)

(***************************************************************************)
(* PositiveKPrior                                                          *)
(***************************************************************************)
PositiveKPriorInit(num_planets) ==
    Return([kind |-> "PositiveKPrior", num_planets |-> num_planets], <<>>)

\* the loop of lines 150-158 from planet num_planet on
RECURSIVE PositiveKLoop(_, _, _, _)
\* PositiveKLoop that rejects k = 0 too (k <= 0.0)
PositiveKLoopStrict(self, ps, num_planet, reads) ==
    IF num_planet > self.num_planets THEN Return(Zero, reads)
    ELSE
    LET kname == Format("k", num_planet)
        logkname == Format("logk", num_planet)
        after == IF Has(ps, kname) THEN Append(reads, kname)
                 ELSE reads \o <<kname, logkname>>
    IN  IF ~Has(ps, kname) /\ ~Has(ps, logkname) THEN Raise("KeyError", after)
        ELSE LET k == IF Has(ps, kname) THEN ps.vals[kname]
                      ELSE Exp(ps.vals[logkname])
             IN  IF ~Less(Zero, k) THEN Return(NegInf, after)
                 ELSE PositiveKLoop(self, ps, num_planet + 1, after)

PositiveKLoop(self, ps, num_planet, reads) ==
    IF num_planet > self.num_planets THEN Return(Zero, reads)
    ELSE
    LET kname == Format("k", num_planet)
        logkname == Format("logk", num_planet)
        after == IF Has(ps, kname) THEN Append(reads, kname)
                 ELSE reads \o <<kname, logkname>>
    IN  IF ~Has(ps, kname) /\ ~Has(ps, logkname) THEN Raise("KeyError", after)
        ELSE LET k == IF Has(ps, kname) THEN ps.vals[kname]
                      ELSE Exp(ps.vals[logkname])
             IN  IF Less(k, Zero) THEN Return(NegInf, after)
                 ELSE PositiveKLoop(self, ps, num_planet + 1, after)

PositiveKPriorCall(self, ps) == PositiveKLoop(self, ps, 1, <<>>)

(***************************************************************************)
(* SecondaryEclipsePrior, and the collaborators it calls: the conversion   *)
(* to the synth basis (params.basis.to_synth), orbit.timeperi_to_timetrans *)
(* and utils.t_to_phase.  Their code is not in prior.py; they are modelled *)
(* for circular orbits (e = 0, w = 0), where no trigonometry is needed.    *)
(***************************************************************************)
SecondaryEclipsePriorInit(planet_num, ts, ts_err) ==
    Return([kind |-> "SecondaryEclipsePrior", planet_num |-> planet_num,
            ts |-> ts, ts_err |-> ts_err], <<>>)

\* the planets that hold parameter tok
PlanetsWith(ps, tok) == {name[2] : name \in {m \in DOMAIN ps.vals : m[1] = tok}}

\* to_synth: a new state in the basis "per tp e w k".  A state in that basis is
\* copied; a circular orbit given by its time of conjunction tc passes periapsis a
\* quarter of a period earlier.
ToSynth(ps) ==
    IF In("tp", Split(ps.basis)) THEN ps
    ELSE LET pl == PlanetsWith(ps, "per") \cap PlanetsWith(ps, "tc")
             toks == {"per", "tp", "e", "w", "k"}
             val(tok, n) ==
                CASE tok = "per" -> ps.vals[Format("per", n)]
                  [] tok = "tp" ->
                        Sub(ps.vals[Format("tc", n)],
                            Mul(Rat(1, 4), ps.vals[Format("per", n)]))
                  [] tok = "k" ->
                        IF Has(ps, Format("k", n)) THEN ps.vals[Format("k", n)]
                        ELSE Exp(ps.vals[Format("logk", n)])
                  [] OTHER -> Zero
         IN  [basis |-> "per tp e w k",
              vals |-> [name \in {Format(tok, n) : tok \in toks, n \in pl} |->
                            val(name[1], name[2])]]

\* timeperi_to_timetrans(tp, per, ecc, omega, secondary=True) on a circular orbit
\* with omega = 0: the eclipse is at true anomaly 3 pi / 2, three quarters of a
\* period after periapsis
TimeperiToTimetrans(tp, per, ecc, omega) ==
    CASE ecc = Zero /\ omega = Zero -> Add(tp, Mul(Rat(3, 4), per))

\* floor of a rational
Floor(a) == Rat(a.n \div a.d, 1)

\* t_to_phase(synth_params, t, num_planet): the fraction of the period elapsed
\* since the epoch tp, in [0, 1)
TToPhase(synth, t, num_planet) ==
    LET P == synth.vals[Format("per", num_planet)]
        tp == synth.vals[Format("tp", num_planet)]
        cycles == Div(Sub(t, tp), P)
    IN  Sub(cycles, Floor(cycles))

\* SecondaryEclipsePriorCall with epts = ts_err * per
SecondaryEclipsePriorCallTimesPer(self, ps) ==
    LET synth_params == ToSynth(ps)
        getpar(key) == Format(key, self.planet_num)
        names == <<getpar("tp"), getpar("per"), getpar("e"), getpar("w")>>
        missing == {j \in 1..4 : ~Has(synth_params, names[j])}
    IN  IF missing # {}
        THEN Raise("KeyError",
                   SubSeq(names, 1, CHOOSE j \in missing : \A m \in missing : j <= m))
        ELSE
        LET tp == synth_params.vals[names[1]]
            per == synth_params.vals[names[2]]
            ecc == synth_params.vals[names[3]]
            omega == synth_params.vals[names[4]]
            ts == TimeperiToTimetrans(tp, per, ecc, omega)
            ts_phase == TToPhase(synth_params, ts, self.planet_num)
            pts == TToPhase(synth_params, self.ts, self.planet_num)
            epts == Mul(self.ts_err, per)
        IN  IF epts = Zero THEN Raise("ZeroDivisionError", names)
            ELSE Return(Mul(Rat(-1, 2), Square(Div(Sub(ts_phase, pts), epts))), names)

SecondaryEclipsePriorCall(self, ps) ==
    LET synth_params == ToSynth(ps)
        getpar(key) == Format(key, self.planet_num)
        names == <<getpar("tp"), getpar("per"), getpar("e"), getpar("w")>>
        missing == {j \in 1..4 : ~Has(synth_params, names[j])}
    IN  IF missing # {}
        THEN Raise("KeyError",
                   SubSeq(names, 1, CHOOSE j \in missing : \A m \in missing : j <= m))
        ELSE
        LET tp == synth_params.vals[names[1]]
            per == synth_params.vals[names[2]]
            ecc == synth_params.vals[names[3]]
            omega == synth_params.vals[names[4]]
            ts == TimeperiToTimetrans(tp, per, ecc, omega)
            ts_phase == TToPhase(synth_params, ts, self.planet_num)
            pts == TToPhase(synth_params, self.ts, self.planet_num)
        IN  IF per = Zero THEN Raise("ZeroDivisionError", names)
            ELSE LET epts == Div(self.ts_err, per)
                 IN  IF epts = Zero THEN Raise("ZeroDivisionError", names)
                     ELSE Return(Mul(Rat(-1, 2), Square(Div(Sub(ts_phase, pts), epts))),
                                 names)

\* prior(params): __call__ of the instance's class
Call(self, ps) ==
    CASE self.kind = "Gaussian" -> GaussianCall(self, ps)
      [] self.kind = "HardBounds" -> HardBoundsCall(self, ps)
      [] self.kind = "EccentricityPrior" -> EccentricityPriorCall(self, ps)
      [] self.kind = "PositiveKPrior" -> PositiveKPriorCall(self, ps)
      [] self.kind = "SecondaryEclipsePrior" -> SecondaryEclipsePriorCall(self, ps)

(***************************************************************************)
(* __repr__ and __str__.  A message is the tuple of its pieces; a piece    *)
(* that a slice removes (msg[:-1], msg[:-5]) is kept as a piece of its own.*)
(***************************************************************************)
\* '{}'.format(v)
Str(v) == ToString(v)

\* model.Parameters(9, ...): the label table holds the planets 1..NumLabelled
NumLabelled == 9

\* the parameter keys the label table knows, per planet and without a planet
LabelKeys ==
    {"per", "tc", "tp", "e", "w", "k", "logk", "secosw", "sesinw", "ecosw",
     "esinw", "se"}

GlobalLabelKeys == {"dvdt", "curv"}

\* whether tex_labels(...)[name] finds a label (it is a KeyError otherwise)
Labelled(name) ==
    \/ name[1] \in LabelKeys /\ name[2] \in 1..NumLabelled
    \/ name[1] \in GlobalLabelKeys /\ name[2] = 0

\* the typeset label of a name
TexLabel(name) == <<"$", name[1], "_{", Str(name[2]), "}", "$">>

\* tex.replace('$', '')
StripDollar(tex) == SelectSeq(tex, LAMBDA piece : piece # "$")

\* msg[:-n] where the last n characters are the last piece of a non-empty msg
DropLast(msg) == IF msg = <<>> THEN msg ELSE SubSeq(msg, 1, Len(msg) - 1)

GaussianRepr(self) ==
    Return(<<"Gaussian prior on ", Str(self.param), ", mu=", Str(self.mu),
             ", sigma=", Str(self.sigma)>>, <<>>)

GaussianStr(self) ==
    IF Labelled(self.param)
    THEN Return(<<"Gaussian prior on ">> \o TexLabel(self.param)
                    \o <<": $", Str(self.mu), " \\pm ", Str(self.sigma), "$ \\\\">>,
                <<>>)
    ELSE GaussianRepr(self)

HardBoundsRepr(self) ==
    Return(<<"Bounded prior on ", Str(self.param), ", min=", Str(self.minval),
             ", max=", Str(self.maxval)>>, <<>>)

HardBoundsStr(self) ==
    IF Labelled(self.param)
    THEN Return(<<"Bounded prior: $", Str(self.minval), " < ">>
                    \o StripDollar(TexLabel(self.param))
                    \o <<" < ", Str(self.maxval), "$">>, <<>>)
    ELSE HardBoundsRepr(self)

\* the loop of lines 69-70 from position i on
RECURSIVE EccentricityReprLoop(_, _, _)
EccentricityReprLoop(self, i, msg) ==
    IF i > Len(self.planet_list) THEN Return(DropLast(msg), <<>>)
    ELSE IF i > Len(self.upperlims) THEN Raise("IndexError", <<>>)
    ELSE EccentricityReprLoop(self, i + 1,
            msg \o <<"e", Str(self.planet_list[i]), " constrained to be < ",
                     Str(self.upperlims[i]), "\n">>)

EccentricityPriorRepr(self) == EccentricityReprLoop(self, 1, <<>>)

\* the loop of lines 78-81 from position i on: tex[par] is not guarded
RECURSIVE EccentricityStrLoop(_, _, _)
EccentricityStrLoop(self, i, msg) ==
    IF i > Len(self.planet_list) THEN Return(DropLast(msg), <<>>)
    ELSE LET par == Format("e", self.planet_list[i])
         IN  IF ~Labelled(par) THEN Raise("KeyError", <<>>)
             ELSE IF i > Len(self.upperlims) THEN Raise("IndexError", <<>>)
             ELSE EccentricityStrLoop(self, i + 1,
                    msg \o TexLabel(par)
                        \o <<" constrained to be $<", Str(self.upperlims[i]), "$ ",
                             "\\\\\\\\\n">>)

EccentricityPriorStr(self) == EccentricityStrLoop(self, 1, <<>>)

PositiveKPriorRepr(self) == Return(<<"K constrained to be > 0">>, <<>>)

PositiveKPriorStr(self) == Return(<<"$K$ constrained to be $>0$">>, <<>>)

SecondaryEclipsePriorRepr(self) ==
    Return(DropLast(<<"secondary eclipse constraint: ", Str(self.ts), " +/- ",
                      Str(self.ts_err), "\n">>), <<>>)

SecondaryEclipsePriorStr(self) ==
    Return(DropLast(<<"secondary eclipse prior: $", Str(self.ts), " \\pm ",
                      Str(self.ts_err), "$ ", "\\\\\\\\\n">>), <<>>)

\* repr(prior)
Repr(self) ==
    CASE self.kind = "Gaussian" -> GaussianRepr(self)
      [] self.kind = "HardBounds" -> HardBoundsRepr(self)
      [] self.kind = "EccentricityPrior" -> EccentricityPriorRepr(self)
      [] self.kind = "PositiveKPrior" -> PositiveKPriorRepr(self)
      [] self.kind = "SecondaryEclipsePrior" -> SecondaryEclipsePriorRepr(self)

\* str(prior)
ToStr(self) ==
    CASE self.kind = "Gaussian" -> GaussianStr(self)
      [] self.kind = "HardBounds" -> HardBoundsStr(self)
      [] self.kind = "EccentricityPrior" -> EccentricityPriorStr(self)
      [] self.kind = "PositiveKPrior" -> PositiveKPriorStr(self)
      [] self.kind = "SecondaryEclipsePrior" -> SecondaryEclipsePriorStr(self)

(***************************************************************************)
(* Arguments the constructors are called with.                             *)
(***************************************************************************)
\* a labelled per-planet name and a name the label table does not know
ScalarParams == {Format("e", 1), Format("foo", 0)}

MuVals == {Zero, Rat(1, 2)}

SigmaVals == {Zero, Rat(1, 2), Rat(2, 1)}

BoundVals == {Zero, Rat(1, 2)}

UpperLimVals == {Rat(1, 2), Rat(1, 1)}

\* lists of up to two distinct planets, and one planet beyond the label table
PlanetLists ==
    {<<>>} \cup {<<a>> : a \in Planets}
        \cup {l \in {<<a, b>> : a \in Planets, b \in Planets} : l[1] # l[2]}
        \cup {<<NumLabelled + 1>>}

NumPlanetsArgs ==
    {[type |-> "int", n |-> n] : n \in 0..MaxPlanets}
        \cup {[type |-> "list", items |-> l] : l \in PlanetLists}

UpperLimsArgs ==
    {[type |-> "float", x |-> x] : x \in UpperLimVals}
        \cup {[type |-> "list", items |-> l] :
                l \in UNION {[1..n -> UpperLimVals] : n \in 0..MaxPlanets}}

TsVals == {Zero, Rat(3, 4), Rat(7, 4)}

TsErrVals == {Zero, Rat(1, 2)}

(***************************************************************************)
(* The state machine: a prior is constructed once, then evaluated,         *)
(* described and rendered while the sampler proposes parameter states.     *)
(***************************************************************************)
NoPrior == [kind |-> "none"]

\* the last operation, its arguments and its outcome
Did(op, args, res) == [op |-> op, args |-> args, res |-> res]

Init ==
    /\ prior = NoPrior
    /\ params \in {EmptyParams(b) : b \in Bases}
    /\ out = Did("none", <<>>, Return(<<>>, <<>>))

\* the constructor returned the instance or raised (and the run ended there)
Construct(cls, args, res) ==
    /\ out.op = "none"
    /\ prior' = IF res.status = "return" THEN res.value ELSE prior
    /\ out' = Did("init", <<cls>> \o args, res)
    /\ UNCHANGED params

ConstructGaussian ==
    \E param \in ScalarParams, mu \in MuVals, sigma \in SigmaVals :
        Construct("Gaussian", <<param, mu, sigma>>, GaussianInit(param, mu, sigma))

ConstructHardBounds ==
    \E param \in ScalarParams, minval \in BoundVals, maxval \in BoundVals :
        Construct("HardBounds", <<param, minval, maxval>>,
                  HardBoundsInit(param, minval, maxval))

ConstructEccentricityPrior ==
    \E num_planets \in NumPlanetsArgs, upperlims \in UpperLimsArgs :
        Construct("EccentricityPrior", <<num_planets, upperlims>>,
                  EccentricityPriorInit(num_planets, upperlims))

ConstructPositiveKPrior ==
    \E num_planets \in 0..MaxPlanets :
        Construct("PositiveKPrior", <<num_planets>>, PositiveKPriorInit(num_planets))

ConstructSecondaryEclipsePrior ==
    \E planet_num \in Planets, ts \in TsVals, ts_err \in TsErrVals :
        Construct("SecondaryEclipsePrior", <<planet_num, ts, ts_err>>,
                  SecondaryEclipsePriorInit(planet_num, ts, ts_err))

\* what the sampler varies for a prior, and for which planets: those it reads
Focus(self) ==
    CASE self.kind \in {"Gaussian", "HardBounds", "EccentricityPrior"} -> "ecc"
      [] self.kind = "PositiveKPrior" -> "k"
      [] self.kind = "SecondaryEclipsePrior" -> "orbit"

FocusPlanets(self) ==
    Planets \cap
    CASE self.kind \in {"Gaussian", "HardBounds"} -> {self.param[2]}
      [] self.kind = "EccentricityPrior" ->
            {self.planet_list[j] : j \in 1..Len(self.planet_list)}
      [] self.kind = "PositiveKPrior" -> 1..self.num_planets
      [] self.kind = "SecondaryEclipsePrior" -> {self.planet_num}

\* the sampler proposes new parameters for one planet
Propose ==
    /\ prior # NoPrior
    /\ \E n \in FocusPlanets(prior), planet \in PlanetMenu(params.basis, Focus(prior)) :
            params' = SetPlanet(params, n, planet)
    /\ out' = Did("propose", <<>>, Return(<<>>, <<>>))
    /\ UNCHANGED prior

\* the caller removes a planet's parameters from the state
Drop ==
    /\ prior # NoPrior
    /\ \E n \in FocusPlanets(prior) :
            /\ PlanetNames(params, n) # {}
            /\ params' = DropPlanet(params, n)
    /\ out' = Did("propose", <<>>, Return(<<>>, <<>>))
    /\ UNCHANGED prior

\* Evaluate where PositiveKPrior stores the k it derived from logk1 in the state
EvaluateStoring ==
    /\ prior # NoPrior
    /\ out' = Did("call", <<>>, Call(prior, params))
    /\ params' =
        IF /\ prior.kind = "PositiveKPrior"
           /\ prior.num_planets >= 1
           /\ ~Has(params, Format("k", 1))
           /\ Has(params, Format("logk", 1))
        THEN [params EXCEPT !.vals =
                With(params.vals, Format("k", 1), Exp(params.vals[Format("logk", 1)]))]
        ELSE params
    /\ UNCHANGED prior

\* prior(params)
Evaluate ==
    /\ prior # NoPrior
    /\ out' = Did("call", <<>>, Call(prior, params))
    /\ UNCHANGED <<prior, params>>

\* repr(prior)
Describe ==
    /\ prior # NoPrior
    /\ out' = Did("repr", <<>>, Repr(prior))
    /\ UNCHANGED <<prior, params>>

\* str(prior)
Render ==
    /\ prior # NoPrior
    /\ out' = Did("str", <<>>, ToStr(prior))
    /\ UNCHANGED <<prior, params>>

Next ==
    \/ ConstructGaussian
    \/ ConstructHardBounds
    \/ ConstructEccentricityPrior
    \/ ConstructPositiveKPrior
    \/ ConstructSecondaryEclipsePrior
    \/ Propose
    \/ Drop
    \/ Evaluate
    \/ Describe
    \/ Render

Spec == Init /\ [][Next]_vars

(***************************************************************************)
(* Properties.                                                             *)
(***************************************************************************)
\* the last operation was prior(params) on an instance of class cls
Called(cls) == out.op = "call" /\ prior.kind = cls

\* the last operation returned v
Returned(v) == out.res.status = "return" /\ out.res.value = v

\* a < b for rationals
RatLess(a, b) == a.n * b.d < b.n * a.d

HardKinds == {"HardBounds", "EccentricityPrior", "PositiveKPrior"}

\* C1: an evaluation never returns a positive value: a hard constraint (HardBounds,
\* EccentricityPrior, PositiveKPrior) returns 0 or -inf, a soft penalty (Gaussian,
\* SecondaryEclipsePrior) returns 0 or a finite negative number.
C1_NeverPositive ==
    (out.op = "call" /\ out.res.status = "return") =>
        LET v == out.res.value
        IN  IF prior.kind \in HardKinds THEN v = NegInf \/ v = Zero
            ELSE v.t = "rat" /\ v.n <= 0

\* a soft penalty returned a finite negative number
C1_Witness ==
    /\ Called("SecondaryEclipsePrior")
    /\ out.res.status = "return"
    /\ out.res.value.t = "rat"
    /\ out.res.value.n < 0

\* the planet list EccentricityPrior is to hold for its first argument
ExpectedPlanetList(num_planets) ==
    IF num_planets.type = "int" THEN [j \in 1..num_planets.n |-> j]
    ELSE num_planets.items

\* the last operation was EccentricityPrior(num_planets, upperlims)
EccentricityConstructed == out.op = "init" /\ out.args[1] = "EccentricityPrior"

\* C2: EccentricityPrior(num_planets, upperlims) with a float upperlims succeeds,
\* for an int and for a list num_planets, and holds one entry equal to that float
\* per entry of planet_list (1..n, or the list as given).
C2_FloatBroadcast ==
    (EccentricityConstructed /\ out.args[3].type = "float") =>
        /\ out.res.status = "return"
        /\ prior.planet_list = ExpectedPlanetList(out.args[2])
        /\ prior.upperlims = [j \in 1..Len(prior.planet_list) |-> out.args[3].x]

\* which eccentricity parameters a basis carries: e, else secosw, else ecosw
EccBranch(ps) ==
    LET toks == Split(ps.basis)
    IN  IF In("e", toks) THEN "e"
        ELSE IF In("secosw", toks) THEN "secosw"
        ELSE IF In("ecosw", toks) THEN "ecosw"
        ELSE "none"

\* the names that give planet p's eccentricity in the state's basis
EccNames(ps, p) ==
    CASE EccBranch(ps) = "e" -> {Format("e", p)}
      [] EccBranch(ps) = "secosw" -> {Format("secosw", p), Format("sesinw", p)}
      [] EccBranch(ps) = "ecosw" -> {Format("ecosw", p), Format("esinw", p)}
      [] OTHER -> {}

EccPresent(ps, p) == EccNames(ps, p) \subseteq DOMAIN ps.vals

\* planet p's eccentricity is above the limit u or below 0: e itself, or
\* secosw^2 + sesinw^2, or sqrt(ecosw^2 + esinw^2), which exceeds u iff u < 0 or
\* ecosw^2 + esinw^2 > u^2
EccOutside(ps, p, u) ==
    LET sq(key) == Square(ps.vals[Format(key, p)])
    IN  CASE EccBranch(ps) = "e" ->
                \/ RatLess(u, ps.vals[Format("e", p)])
                \/ ps.vals[Format("e", p)].n < 0
          [] EccBranch(ps) = "secosw" -> RatLess(u, Add(sq("secosw"), sq("sesinw")))
          [] EccBranch(ps) = "ecosw" ->
                u.n < 0 \/ RatLess(Square(u), Add(sq("ecosw"), sq("esinw")))

LabelMissing(self) ==
    CASE self.kind \in {"Gaussian", "HardBounds"} -> ~Labelled(self.param)
      [] self.kind = "EccentricityPrior" ->
            \E i \in 1..Len(self.planet_list) :
                ~Labelled(Format("e", self.planet_list[i]))
      [] OTHER -> FALSE

\* C4: str(prior) never raises, for any instance of the five classes; when the
\* label lookup fails it returns what repr(prior) returns.
C4_RenderNeverRaises ==
    out.op = "str" =>
        /\ out.res.status = "return"
        /\ LabelMissing(prior) => out.res = Repr(prior)

\* planet n holds neither k nor logk
KMissing(ps, n) == ~Has(ps, Format("k", n)) /\ ~Has(ps, Format("logk", n))

\* planet n's k is negative: k itself when present (exp(logk) is positive)
KNegative(ps, n) == Has(ps, Format("k", n)) /\ ps.vals[Format("k", n)].n < 0

\* C5 as stated: -inf iff some planet's k is negative, 0 otherwise, and the lookup
\* error propagates if some planet holds neither k nor logk.
C5_AsStated ==
    Called("PositiveKPrior") =>
        IF \E n \in 1..prior.num_planets : KMissing(params, n)
        THEN out.res.status = "raise" /\ out.res.err = "KeyError"
        ELSE Returned(IF \E n \in 1..prior.num_planets : KNegative(params, n)
                      THEN NegInf ELSE Zero)

\* the first planet of 1..num_planets that holds no k or a negative one (0: none)
KFirstStop(ps, num_planets) ==
    LET stops == {n \in 1..num_planets : KMissing(ps, n) \/ KNegative(ps, n)}
    IN  IF stops = {} THEN 0 ELSE CHOOSE n \in stops : \A m \in stops : n <= m

\* C5 amended: the planets are taken in order up to the first that holds neither
\* k nor logk or whose k is negative; the lookup error propagates in the first
\* case, -inf is returned in the second, and 0 when there is no such planet.
C5_FirstStopDecides ==
    Called("PositiveKPrior") =>
        LET stop == KFirstStop(params, prior.num_planets)
        IN  IF stop = 0 THEN Returned(Zero)
            ELSE IF KMissing(params, stop)
                 THEN out.res.status = "raise" /\ out.res.err = "KeyError"
                 ELSE Returned(NegInf)

\* planet 1's k is negative and planet 2 holds neither name: -inf, no error
C5_Witness ==
    /\ Called("PositiveKPrior")
    /\ prior.num_planets >= 2
    /\ KNegative(params, 1)
    /\ KMissing(params, 2)
    /\ Returned(NegInf)

\* C6: EccentricityPrior with an upperlims list whose length differs from that of
\* planet_list fails in the constructor, so that every instance, whenever it is
\* evaluated, has len(upperlims) = len(planet_list).
C6_LengthsMatch ==
    /\ (/\ EccentricityConstructed
        /\ out.args[3].type = "list"
        /\ Len(out.args[3].items) # Len(ExpectedPlanetList(out.args[2])))
       => (out.res.status = "raise" /\ prior = NoPrior)
    /\ prior.kind = "EccentricityPrior" =>
            Len(prior.upperlims) = Len(prior.planet_list)

\* one planet and two upper limits: the constructor raised AssertionError
C6_Witness ==
    /\ EccentricityConstructed
    /\ out.args[3].type = "list"
    /\ Len(out.args[3].items) = 2
    /\ Len(ExpectedPlanetList(out.args[2])) = 1
    /\ out.res.status = "raise"
    /\ out.res.err = "AssertionError"

C8_HardBoundsValue ==
    (Called("HardBounds") /\ Has(params, prior.param)) =>
        LET x == params.vals[prior.param]
        IN  Returned(IF RatLess(x, prior.minval) \/ RatLess(prior.maxval, x)
                     THEN NegInf ELSE Zero)

\* x equals maxval, above minval: admitted
C8_Witness ==
    /\ Called("HardBounds")
    /\ Has(params, prior.param)
    /\ params.vals[prior.param] = prior.maxval
    /\ RatLess(prior.minval, prior.maxval)
    /\ Returned(Zero)

\* the phase predicted for the secondary eclipse of the instance's planet
PredictedPhase(self, ps) ==
    LET synth == ToSynth(ps)
        val(key) == synth.vals[Format(key, self.planet_num)]
    IN  TToPhase(synth, TimeperiToTimetrans(val("tp"), val("per"), val("e"), val("w")),
                 self.planet_num)

\* the phase of the observed eclipse time ts
ObservedPhase(self, ps) == TToPhase(ToSynth(ps), self.ts, self.planet_num)

\* the state holds the planet of the instance, with a positive period
EclipsePlanetPresent(self, ps) ==
    /\ \A key \in {"tp", "per", "e", "w"} :
            Has(ToSynth(ps), Format(key, self.planet_num))
    /\ ToSynth(ps).vals[Format("per", self.planet_num)].n > 0

\* C9: for ts_err > 0 and per > 0, SecondaryEclipsePrior returns
\* -0.5 * ((predicted_phase - observed_phase) / epts)^2 with epts = ts_err / per,
\* that is -0.5 * ((predicted_phase - observed_phase) * per / ts_err)^2: never
\* -inf, and 0 only when the two phases are equal.
C9_EclipsePenalty ==
    (/\ Called("SecondaryEclipsePrior")
     /\ prior.ts_err.n > 0
     /\ EclipsePlanetPresent(prior, params))
    => LET per == ToSynth(params).vals[Format("per", prior.planet_num)]
           diff == Sub(PredictedPhase(prior, params), ObservedPhase(prior, params))
       IN  /\ Returned(Mul(Rat(-1, 2), Square(Div(Mul(diff, per), prior.ts_err))))
           /\ out.res.value # NegInf
           /\ out.res.value = Zero =>
                    PredictedPhase(prior, params) = ObservedPhase(prior, params)

\* a period other than 1 and phases that differ: a negative penalty
C9_Witness ==
    /\ Called("SecondaryEclipsePrior")
    /\ prior.ts_err.n > 0
    /\ EclipsePlanetPresent(prior, params)
    /\ ToSynth(params).vals[Format("per", prior.planet_num)] = Rat(2, 1)
    /\ PredictedPhase(prior, params) # ObservedPhase(prior, params)
    /\ out.res.status = "return"
    /\ out.res.value.n < 0

\* the planets an evaluation goes through, in order
PlanetOrder(self) ==
    IF self.kind = "EccentricityPrior" THEN self.planet_list
    ELSE [j \in 1..self.num_planets |-> j]

\* the planet at position i lacks a parameter the evaluation needs
MissingAt(self, ps, i) ==
    IF self.kind = "EccentricityPrior" THEN ~EccPresent(ps, PlanetOrder(self)[i])
    ELSE KMissing(ps, PlanetOrder(self)[i])

\* the planet at position i holds its parameters and violates the constraint
ViolatesAt(self, ps, i) ==
    /\ ~MissingAt(self, ps, i)
    /\ IF self.kind = "EccentricityPrior"
       THEN EccOutside(ps, PlanetOrder(self)[i], self.upperlims[i])
       ELSE KNegative(ps, PlanetOrder(self)[i])

\* the first position whose planet lacks a parameter or violates (0: none)
FirstStop(self, ps) ==
    LET stops == {i \in 1..Len(PlanetOrder(self)) :
                    MissingAt(self, ps, i) \/ ViolatesAt(self, ps, i)}
    IN  IF stops = {} THEN 0 ELSE CHOOSE i \in stops : \A m \in stops : i <= m

\* the planets of the names looked up
PlanetsRead == {out.res.reads[j][2] : j \in 1..Len(out.res.reads)}

\* C10: EccentricityPrior and PositiveKPrior take the planets in order and stop
\* at the first that violates: -inf is returned with no lookup for a later planet,
\* also when a later planet's parameter is absent; a parameter missing for an
\* earlier planet raises before the violation is reached.
C10_StopsAtFirst ==
    (/\ out.op = "call"
     /\ prior.kind \in {"EccentricityPrior", "PositiveKPrior"}
     /\ prior.kind = "EccentricityPrior" => EccBranch(params) # "none")
    => LET stop == FirstStop(prior, params)
           upto == IF stop = 0 THEN Len(PlanetOrder(prior)) ELSE stop
       IN  /\ PlanetsRead = {PlanetOrder(prior)[i] : i \in 1..upto}
           /\ stop # 0 /\ ViolatesAt(prior, params, stop) => Returned(NegInf)
           /\ stop # 0 /\ MissingAt(prior, params, stop) =>
                    (out.res.status = "raise" /\ out.res.err = "KeyError")

\* the first planet violates, the second has no parameters: -inf, one planet read
C10_Witness ==
    /\ Called("EccentricityPrior")
    /\ EccBranch(params) = "secosw"
    /\ Len(prior.planet_list) = 2
    /\ ViolatesAt(prior, params, 1)
    /\ MissingAt(prior, params, 2)
    /\ Returned(NegInf)
    /\ PlanetsRead = {prior.planet_list[1]}

====
